---- MODULE Spec2Model ----
(***************************************************************************)
(* Model of ts-csv: the CSV Reader (src/src/reader.ts), the lookahead      *)
(* iterator it is built on (HasNextIterator) and the Writer.               *)
(*                                                                         *)
(* A string is a sequence of characters; a character is a one-character    *)
(* TLA+ string, except NUL which is written "\\0".  A field of a row is    *)
(* either a string, written [str |-> s], or a number, written [num |-> n]. *)
(***************************************************************************)
EXTENDS Integers, Sequences, FiniteSets, TLC

VARIABLES source, dialect, lines, fields, field, numericField, state,
          lineNum, chars, pc, ret, out,
          sequence, hasNextIterator, calls,
          pulled, yielded, writerPc,
          recordOpts, records, recordsPc

\* The Reader, its input and the results of its next() calls.
readerVars == <<source, dialect, lines, fields, field, numericField, state,
                lineNum, chars, pc, ret, out>>

\* A HasNextIterator used on its own, the sequence under it and the results
\* of the calls made on it.
iteratorVars == <<sequence, hasNextIterator, calls>>

\* A writer: the row it pulled last, what it yielded for it (a line, or the
\* failure thrown) and where it stands.
writerVars == <<pulled, yielded, writerPc>>

\* A recordReader: its options and, once it has been read to its end, the
\* records it yielded.
recordsVars == <<recordOpts, records, recordsPc>>

vars == <<readerVars, iteratorVars, writerVars, recordsVars>>

-----------------------------------------------------------------------------
(* Characters *)

NUL == "\\0"
LF == "\n"
CR == "\r"
DQUOTE == "\""
BACKSLASH == "\\"
COMMA == ","
SPACE == " "
\* The value of an option that is not set (quoteChar, escapeChar).
undefined == "undefined"

Digit == {"0", "1", "2", "3", "4", "5", "6", "7", "8", "9"}

DigitValue(c) ==
    CASE c = "0" -> 0 [] c = "1" -> 1 [] c = "2" -> 2 [] c = "3" -> 3
      [] c = "4" -> 4 [] c = "5" -> 5 [] c = "6" -> 6 [] c = "7" -> 7
      [] c = "8" -> 8 [] c = "9" -> 9

\* All strings over the alphabet A of length at most n.
Strings(A, n) == UNION {[1..k -> A] : k \in 0..n}

Str(s) == [str |-> s]
Num(n) == [num |-> n]

-----------------------------------------------------------------------------
(* Dialect *)

MINIMAL == "MINIMAL"
ALL == "ALL"
NON_NUMERIC == "NON_NUMERIC"
NONE == "NONE"
Quoting == {MINIMAL, ALL, NON_NUMERIC, NONE}

excel ==
    [delimiter |-> COMMA, doubleQuote |-> TRUE, escapeChar |-> undefined,
     lineTerminator |-> <<CR, LF>>, quoteChar |-> DQUOTE,
     quoting |-> MINIMAL, skipInitialSpace |-> FALSE, strict |-> FALSE]

-----------------------------------------------------------------------------
(* ParserState *)

START_RECORD == "START_RECORD"
START_FIELD == "START_FIELD"
ESCAPED_CHAR == "ESCAPED_CHAR"
IN_FIELD == "IN_FIELD"
IN_QUOTED_FIELD == "IN_QUOTED_FIELD"
ESCAPE_IN_QUOTED_FIELD == "ESCAPE_IN_QUOTED_FIELD"
QUOTE_IN_QUOTED_FIELD == "QUOTE_IN_QUOTED_FIELD"
AFTER_ESCAPED_CRLF == "AFTER_ESCAPED_CRLF"

ParserState ==
    {START_RECORD, START_FIELD, ESCAPED_CHAR, IN_FIELD, IN_QUOTED_FIELD,
     ESCAPE_IN_QUOTED_FIELD, QUOTE_IN_QUOTED_FIELD, AFTER_ESCAPED_CRLF}

-----------------------------------------------------------------------------
(* HasNextIterator: the underlying iterator is the sequence of the items   *)
(* it has not produced yet; nextValues is the lookahead buffer.  The value *)
(* of an exhausted next() is the empty sequence, which like undefined is   *)
(* falsy.                                                                  *)

HasNextIterator(iterable) == [iterator |-> iterable, nextValues |-> <<>>]

\* As HasNextIterator_next, but the underlying iterator is pulled even when
\* a value is buffered.
HasNextIterator_next_skipsBuffer(it) ==
    IF Len(it.iterator) # 0
    THEN [value |-> Head(it.iterator), done |-> FALSE,
          it |-> [it EXCEPT !.iterator = Tail(@)]]
    ELSE [value |-> <<>>, done |-> TRUE, it |-> it]

HasNextIterator_next(it) ==
    IF Len(it.nextValues) # 0
    THEN [value |-> Head(it.nextValues), done |-> FALSE,
          it |-> [it EXCEPT !.nextValues = Tail(@)]]
    ELSE IF Len(it.iterator) # 0
         THEN [value |-> Head(it.iterator), done |-> FALSE,
               it |-> [it EXCEPT !.iterator = Tail(@)]]
         ELSE [value |-> <<>>, done |-> TRUE, it |-> it]

\* As HasNextIterator_hasNext, but only the buffer is looked at.
HasNextIterator_hasNext_bufferOnly(it) ==
    [result |-> Len(it.nextValues) # 0, it |-> it]

\* As HasNextIterator_hasNext, but the value pulled is not buffered.
HasNextIterator_hasNext_dropsValue(it) ==
    IF Len(it.nextValues) # 0
    THEN [result |-> TRUE, it |-> it]
    ELSE LET r == HasNextIterator_next(it)
         IN  [result |-> ~r.done, it |-> r.it]

HasNextIterator_hasNext(it) ==
    IF Len(it.nextValues) # 0
    THEN [result |-> TRUE, it |-> it]
    ELSE LET r == HasNextIterator_next(it)
         IN  IF ~r.done
             THEN [result |-> TRUE,
                   it |-> [r.it EXCEPT !.nextValues = Append(@, r.value)]]
             ELSE [result |-> FALSE, it |-> r.it]

-----------------------------------------------------------------------------
(* Line segmentation *)

endOfRecord(c) == c = LF \/ c = CR

\* As TerminatorAt, but CR and LF are matched before CR LF, so that CR LF
\* is two terminators.
TerminatorAt_crBeforeCrLf(s, i) ==
    IF s[i] = CR \/ s[i] = LF THEN 1 ELSE 0

\* The length of the terminator \r\n | \r | \n matched at position i of s.
TerminatorAt(s, i) ==
    IF s[i] = CR /\ i < Len(s) /\ s[i + 1] = LF THEN 2
    ELSE IF s[i] = CR \/ s[i] = LF THEN 1
    ELSE 0

\* The lines of s from position start on, the match being searched from i on.
RECURSIVE splitLinesFrom(_, _, _)
splitLinesFrom(s, start, i) ==
    IF i > Len(s) THEN <<>>
    ELSE LET t == TerminatorAt(s, i)
         IN  IF t = 0 THEN splitLinesFrom(s, start, i + 1)
             ELSE <<SubSeq(s, start, i + t - 1)>>
                      \o splitLinesFrom(s, i + t, i + t)

splitLines(s) == splitLinesFrom(s, 1, 1)

\* line.replace(/\r\n$/, '\n')
NormalizeLine(line) ==
    LET n == Len(line)
    IN  IF n >= 2 /\ line[n - 1] = CR /\ line[n] = LF
        THEN SubSeq(line, 1, n - 2) \o <<LF>>
        ELSE line

\* As SourceLines, but no newline is appended to a source that lacks one.
SourceLines_noTrailingNewline(src) ==
    LET ls == splitLines(src)
    IN  [i \in 1..Len(ls) |-> NormalizeLine(ls[i])]

\* The lines the constructor hands to the line iterator.
SourceLines(src) ==
    LET s == IF Len(src) # 0 /\ src[Len(src)] # LF THEN src \o <<LF>> ELSE src
        ls == splitLines(s)
    IN  [i \in 1..Len(ls) |-> NormalizeLine(ls[i])]

-----------------------------------------------------------------------------
(* Number(field), on strings over Digit, white space and characters that   *)
(* occur in no numeric literal (no sign, point, exponent or radix prefix). *)

NaN == [nan |-> TRUE]

isNaN(f) == f = NaN

IsWhiteSpace(c) == c \in {SPACE, LF, CR}

RECURSIVE TrimStart(_)
TrimStart(s) ==
    IF Len(s) # 0 /\ IsWhiteSpace(Head(s)) THEN TrimStart(Tail(s)) ELSE s

RECURSIVE TrimEnd(_)
TrimEnd(s) ==
    IF Len(s) # 0 /\ IsWhiteSpace(s[Len(s)])
    THEN TrimEnd(SubSeq(s, 1, Len(s) - 1))
    ELSE s

RECURSIVE DecimalValue(_)
DecimalValue(s) ==
    IF Len(s) = 0 THEN 0
    ELSE 10 * DecimalValue(SubSeq(s, 1, Len(s) - 1)) + DigitValue(s[Len(s)])

Number(s) ==
    LET t == TrimEnd(TrimStart(s))
    IN  IF Len(t) = 0 THEN Num(0)
        ELSE IF \A i \in 1..Len(t) : t[i] \in Digit THEN Num(DecimalValue(t))
        ELSE NaN

-----------------------------------------------------------------------------
(* Reader.  An operator on the Reader takes the record m of the instance   *)
(* fields (lines, fields, field, numericField, state, lineNum) and of the  *)
(* frame of the next() call in progress (chars, pc, ret) and yields the    *)
(* record after the call.  The dialect is the readonly field of the same   *)
(* name.                                                                   *)

Pending == [pending |-> TRUE]

Thrown(m) == "thrown" \in DOMAIN m.ret

\* throw new Error(`${message}, at line ${this.lineNum}`)
error(m, message) ==
    [m EXCEPT !.pc = "idle",
              !.ret = [thrown |-> [message |-> message, lineNum |-> m.lineNum]]]

\* As reset, but the line counter is reset with the rest.
reset_lineNum(m) ==
    [m EXCEPT !.fields = <<>>, !.state = START_RECORD, !.numericField = FALSE,
              !.lineNum = 0]

reset(m) ==
    [m EXCEPT !.fields = <<>>, !.state = START_RECORD, !.numericField = FALSE]

addChar(m, c) == [m EXCEPT !.field = Append(@, c)]

saveField(m) ==
    IF m.numericField
    THEN LET m1 == [m EXCEPT !.numericField = FALSE]
             f == Number(m.field)
         IN  IF isNaN(f)
             THEN error(m1, <<"could not convert string to number: ">> \o m.field)
             ELSE [m1 EXCEPT !.fields = Append(@, f), !.field = <<>>]
    ELSE [m EXCEPT !.fields = Append(@, Str(m.field)), !.field = <<>>]

\* this.saveField(); this.state = s;
saveFieldThen(m, s) ==
    LET m1 == saveField(m)
    IN  IF Thrown(m1) THEN m1 ELSE [m1 EXCEPT !.state = s]

\* !chars.hasNext() && !lines.hasNext(), with the lookahead it buffers.
endOfData(m) ==
    LET hc == HasNextIterator_hasNext(m.chars)
        m1 == [m EXCEPT !.chars = hc.it]
    IN  IF hc.result
        THEN [result |-> FALSE, m |-> m1]
        ELSE LET hl == HasNextIterator_hasNext(m1.lines)
             IN  [result |-> ~hl.result, m |-> [m1 EXCEPT !.lines = hl.it]]

\* As processChar_START_FIELD, but the quote character opens a quoted field
\* under NONE quoting too.
processChar_START_FIELD_quotesUnderNone(m, c) ==
    IF endOfRecord(c) THEN saveFieldThen(m, START_RECORD)
    ELSE IF c = dialect.quoteChar THEN [m EXCEPT !.state = IN_QUOTED_FIELD]
    ELSE IF c = dialect.escapeChar THEN [m EXCEPT !.state = ESCAPED_CHAR]
    ELSE IF c = SPACE /\ dialect.skipInitialSpace THEN m
    ELSE IF c = dialect.delimiter THEN saveField(m)
    ELSE [addChar(m, c) EXCEPT
              !.numericField = (dialect.quoting = NON_NUMERIC) \/ @,
              !.state = IN_FIELD]

processChar_START_FIELD(m, c) ==
    IF endOfRecord(c) THEN saveFieldThen(m, START_RECORD)
    ELSE IF c = dialect.quoteChar /\ dialect.quoting # NONE
         THEN [m EXCEPT !.state = IN_QUOTED_FIELD]
    ELSE IF c = dialect.escapeChar THEN [m EXCEPT !.state = ESCAPED_CHAR]
    ELSE IF c = SPACE /\ dialect.skipInitialSpace THEN m
    ELSE IF c = dialect.delimiter THEN saveField(m)
    ELSE [addChar(m, c) EXCEPT
              !.numericField = (dialect.quoting = NON_NUMERIC) \/ @,
              !.state = IN_FIELD]

\* As processChar_START_RECORD, but a line terminator is handled as
\* START_FIELD too.
processChar_START_RECORD_blankIsField(m, c) ==
    processChar_START_FIELD([m EXCEPT !.state = START_FIELD], c)

\* normal character - handle as START_FIELD
processChar_START_RECORD(m, c) ==
    IF endOfRecord(c) THEN m
    ELSE processChar_START_FIELD([m EXCEPT !.state = START_FIELD], c)

\* As processChar_ESCAPED_CHAR, but an escaped delimiter ends the field.
processChar_ESCAPED_CHAR_delimiterSplits(m, c) ==
    IF c = dialect.delimiter THEN saveFieldThen(m, START_FIELD)
    ELSE IF endOfRecord(c)
    THEN [addChar(m, c) EXCEPT !.state = AFTER_ESCAPED_CRLF]
    ELSE [addChar(m, c) EXCEPT !.state = IN_FIELD]

processChar_ESCAPED_CHAR(m, c) ==
    IF endOfRecord(c)
    THEN [addChar(m, c) EXCEPT !.state = AFTER_ESCAPED_CRLF]
    ELSE [addChar(m, c) EXCEPT !.state = IN_FIELD]

processChar_IN_FIELD(m, c) ==
    IF endOfRecord(c) THEN saveFieldThen(m, START_RECORD)
    ELSE IF c = dialect.escapeChar THEN [m EXCEPT !.state = ESCAPED_CHAR]
    ELSE IF c = dialect.delimiter THEN saveFieldThen(m, START_FIELD)
    ELSE addChar(m, c)

processChar_AFTER_ESCAPED_CRLF(m, c) ==
    IF endOfRecord(c) THEN m
    ELSE processChar_IN_FIELD([m EXCEPT !.state = IN_FIELD], c)

\* As processChar_IN_QUOTED_FIELD, but a delimiter ends the quoted field.
processChar_IN_QUOTED_FIELD_delimiterEnds(m, c) ==
    LET e == endOfData(m)
    IN  IF e.result THEN e.m
        ELSE IF c = dialect.escapeChar
             THEN [e.m EXCEPT !.state = ESCAPE_IN_QUOTED_FIELD]
        ELSE IF c = dialect.quoteChar /\ dialect.quoting # NONE
             THEN IF dialect.doubleQuote
                  THEN [e.m EXCEPT !.state = QUOTE_IN_QUOTED_FIELD]
                  ELSE [e.m EXCEPT !.state = IN_FIELD]
        ELSE IF c = dialect.delimiter THEN saveFieldThen(e.m, START_FIELD)
        ELSE addChar(e.m, c)

\* As processChar_IN_QUOTED_FIELD, but without the test of endOfData.
processChar_IN_QUOTED_FIELD_noEndOfData(m, c) ==
    IF c = dialect.escapeChar
    THEN [m EXCEPT !.state = ESCAPE_IN_QUOTED_FIELD]
    ELSE IF c = dialect.quoteChar /\ dialect.quoting # NONE
         THEN IF dialect.doubleQuote
              THEN [m EXCEPT !.state = QUOTE_IN_QUOTED_FIELD]
              ELSE [m EXCEPT !.state = IN_FIELD]
    ELSE addChar(m, c)

processChar_IN_QUOTED_FIELD(m, c) ==
    LET e == endOfData(m)
    IN  IF e.result THEN e.m
        ELSE IF c = dialect.escapeChar
             THEN [e.m EXCEPT !.state = ESCAPE_IN_QUOTED_FIELD]
        ELSE IF c = dialect.quoteChar /\ dialect.quoting # NONE
             THEN IF dialect.doubleQuote
                  THEN [e.m EXCEPT !.state = QUOTE_IN_QUOTED_FIELD]
                  ELSE [e.m EXCEPT !.state = IN_FIELD]
        ELSE addChar(e.m, c)

processChar_ESCAPE_IN_QUOTED_FIELD(m, c) ==
    [addChar(m, c) EXCEPT !.state = IN_QUOTED_FIELD]

\* As processChar_QUOTE_IN_QUOTED_FIELD, but the second quote of a pair is
\* dropped instead of saved.
processChar_QUOTE_IN_QUOTED_FIELD_dropsQuote(m, c) ==
    IF dialect.quoting # NONE /\ c = dialect.quoteChar
    THEN [m EXCEPT !.state = IN_QUOTED_FIELD]
    ELSE IF c = dialect.delimiter THEN saveFieldThen(m, START_FIELD)
    ELSE IF endOfRecord(c) THEN saveFieldThen(m, START_RECORD)
    ELSE IF ~dialect.strict THEN [addChar(m, c) EXCEPT !.state = IN_FIELD]
    ELSE error(m, <<DQUOTE, dialect.delimiter, "\" expected after \"",
                    dialect.quoteChar, DQUOTE>>)

\* As processChar_QUOTE_IN_QUOTED_FIELD, but strict is not looked at.
processChar_QUOTE_IN_QUOTED_FIELD_neverStrict(m, c) ==
    IF dialect.quoting # NONE /\ c = dialect.quoteChar
    THEN [addChar(m, c) EXCEPT !.state = IN_QUOTED_FIELD]
    ELSE IF c = dialect.delimiter THEN saveFieldThen(m, START_FIELD)
    ELSE IF endOfRecord(c) THEN saveFieldThen(m, START_RECORD)
    ELSE [addChar(m, c) EXCEPT !.state = IN_FIELD]

processChar_QUOTE_IN_QUOTED_FIELD(m, c) ==
    IF dialect.quoting # NONE /\ c = dialect.quoteChar
    THEN [addChar(m, c) EXCEPT !.state = IN_QUOTED_FIELD]
    ELSE IF c = dialect.delimiter THEN saveFieldThen(m, START_FIELD)
    ELSE IF endOfRecord(c) THEN saveFieldThen(m, START_RECORD)
    ELSE IF ~dialect.strict THEN [addChar(m, c) EXCEPT !.state = IN_FIELD]
    ELSE error(m, <<DQUOTE, dialect.delimiter, "\" expected after \"",
                    dialect.quoteChar, DQUOTE>>)

processChar(m, c) ==
    CASE m.state = START_RECORD -> processChar_START_RECORD(m, c)
      [] m.state = START_FIELD -> processChar_START_FIELD(m, c)
      [] m.state = ESCAPED_CHAR -> processChar_ESCAPED_CHAR(m, c)
      [] m.state = AFTER_ESCAPED_CRLF -> processChar_AFTER_ESCAPED_CRLF(m, c)
      [] m.state = IN_FIELD -> processChar_IN_FIELD(m, c)
      [] m.state = IN_QUOTED_FIELD -> processChar_IN_QUOTED_FIELD(m, c)
      [] m.state = ESCAPE_IN_QUOTED_FIELD ->
             processChar_ESCAPE_IN_QUOTED_FIELD(m, c)
      [] m.state = QUOTE_IN_QUOTED_FIELD ->
             processChar_QUOTE_IN_QUOTED_FIELD(m, c)

\* const fields = this.fields.slice(); this.fields.length = 0;
\* return {value: fields, done: false};
returnRow(m) ==
    [m EXCEPT !.pc = "idle", !.ret = [value |-> m.fields, done |-> FALSE],
              !.fields = <<>>]

\* Entry of next(): this.reset().
Reader_next_enter(m) == [reset(m) EXCEPT !.pc = "line", !.ret = Pending]

\* As Reader_next_line, but without a line the call returns the end marker
\* whatever is pending.
Reader_next_line_dropsPending(m) ==
    LET result == HasNextIterator_next(m.lines)
        line == result.value
        m1 == [m EXCEPT !.lines = result.it]
    IN  IF Len(line) = 0
        THEN [m1 EXCEPT !.pc = "idle", !.ret = [value |-> <<>>, done |-> TRUE]]
        ELSE [m1 EXCEPT !.lineNum = @ + 1,
                        !.chars = HasNextIterator(line),
                        !.pc = "chars"]

\* As Reader_next_line, but the line counter is raised before the line is
\* looked at.
Reader_next_line_countsNoLine(m) ==
    LET result == HasNextIterator_next(m.lines)
        line == result.value
        m1 == [m EXCEPT !.lines = result.it, !.lineNum = @ + 1]
    IN  IF Len(line) = 0
        THEN IF Len(m1.field) # 0 \/ m1.state = IN_QUOTED_FIELD
             THEN IF dialect.strict
                  THEN error(m1, <<"unexpected end of data">>)
                  ELSE LET m2 == saveField(m1)
                       IN  IF Thrown(m2) THEN m2 ELSE returnRow(m2)
             ELSE [m1 EXCEPT !.pc = "idle",
                             !.ret = [value |-> <<>>, done |-> TRUE]]
        ELSE [m1 EXCEPT !.chars = HasNextIterator(line), !.pc = "chars"]

\* The head of the do-loop body: pull a line; without one, finish the call.
Reader_next_line(m) ==
    LET result == HasNextIterator_next(m.lines)
        line == result.value
        m1 == [m EXCEPT !.lines = result.it]
    IN  IF Len(line) = 0
        THEN IF Len(m1.field) # 0 \/ m1.state = IN_QUOTED_FIELD
             THEN IF dialect.strict
                  THEN error(m1, <<"unexpected end of data">>)
                  ELSE LET m2 == saveField(m1)
                       IN  IF Thrown(m2) THEN m2 ELSE returnRow(m2)
             ELSE [m1 EXCEPT !.pc = "idle",
                             !.ret = [value |-> <<>>, done |-> TRUE]]
        ELSE [m1 EXCEPT !.lineNum = @ + 1,
                        !.chars = HasNextIterator(line),
                        !.pc = "chars"]

\* As Reader_next_char, but a NUL is handed to processChar like any other
\* character.
Reader_next_char_noNullCheck(m) ==
    LET result == HasNextIterator_next(m.chars)
        c == result.value
        m1 == [m EXCEPT !.chars = result.it]
    IN  IF result.done
        THEN IF m1.state # START_RECORD
             THEN [m1 EXCEPT !.pc = "line"]
             ELSE returnRow(m1)
        ELSE processChar(m1, c)

\* One turn of for (const c of chars); when chars is exhausted, the test of
\* the do-while and, out of the loop, the return of the row.
Reader_next_char(m) ==
    LET result == HasNextIterator_next(m.chars)
        c == result.value
        m1 == [m EXCEPT !.chars = result.it]
    IN  IF result.done
        THEN IF m1.state # START_RECORD
             THEN [m1 EXCEPT !.pc = "line"]
             ELSE returnRow(m1)
        ELSE IF c = NUL
             THEN error(m1, <<"line contains NULL byte">>)
             ELSE processChar(m1, c)

\* new Reader(source, dialect)
Reader(src) ==
    [lines |-> HasNextIterator(SourceLines(src)), fields |-> <<>>,
     field |-> <<>>, numericField |-> FALSE, state |-> START_RECORD,
     lineNum |-> 0, chars |-> HasNextIterator(<<>>), pc |-> "idle",
     ret |-> Pending]

\* next() from entry to return or throw.
Reader_next_step(m) ==
    IF m.pc = "line" THEN Reader_next_line(m) ELSE Reader_next_char(m)

RECURSIVE Reader_next_run(_)
Reader_next_run(m) ==
    IF m.pc = "idle" THEN m ELSE Reader_next_run(Reader_next_step(m))

Reader_next(m) == Reader_next_run(Reader_next_enter(m))

\* for (const row of reader) { yield row; }: the results given to the
\* consumer of the generator, ending with the error if next() throws.
RECURSIVE readerFrom(_)
readerFrom(m) ==
    LET m1 == Reader_next(m)
    IN  IF Thrown(m1) THEN <<m1.ret>>
        ELSE IF m1.ret.done THEN <<>>
        ELSE <<m1.ret>> \o readerFrom(m1)

reader(src) == readerFrom(Reader(src))

-----------------------------------------------------------------------------
(* Writer (src/writer.ts is not among the sources: the serializer is taken *)
(* from section 4.4 of the specification and from the expectations of the  *)
(* test suite, src/spec/iterator.spec.ts).  A row is written to a line, or *)
(* the write fails with a message.                                         *)

unix == [excel EXCEPT !.lineTerminator = <<LF>>, !.quoting = ALL]

WriterEscapeRequired == <<"need to escape, but no escapeChar set">>
WriterSingleEmptyFieldMustQuote ==
    <<"single empty field record must be quoted">>

Failed(message) == [thrown |-> message]
IsFailed(w) == "thrown" \in DOMAIN w
Written(s) == [line |-> s]

DigitChar(d) == CHOOSE c \in Digit : DigitValue(c) = d

\* String(n) of a natural number.
RECURSIVE DecimalString(_)
DecimalString(n) ==
    IF n < 10 THEN <<DigitChar(n)>>
    ELSE Append(DecimalString(n \div 10), DigitChar(n % 10))

\* The textual form of a field.
FieldText(f) == IF "num" \in DOMAIN f THEN DecimalString(f.num) ELSE f.str

InLineTerminator(c) ==
    \E i \in 1..Len(dialect.lineTerminator) : dialect.lineTerminator[i] = c

\* As quoted, but under MINIMAL the delimiter does not ask for quotes.
quoted_delimiterUnquoted(f) ==
    LET text == FieldText(f)
    IN  CASE dialect.quoting = ALL -> TRUE
          [] dialect.quoting = NON_NUMERIC -> "num" \notin DOMAIN f
          [] dialect.quoting = MINIMAL ->
                \E i \in 1..Len(text) :
                    \/ text[i] = dialect.quoteChar /\ dialect.doubleQuote
                    \/ InLineTerminator(text[i])
                    \/ text[i] = dialect.escapeChar
          [] dialect.quoting = NONE -> FALSE

\* The per-field quoting decision.  Under MINIMAL the quote character asks
\* for quotes when it is doubled; with doubleQuote off it is escaped and the
\* field stays as it is (writeRowTest(['"'], '\\"', ...)).
quoted(f) ==
    LET text == FieldText(f)
    IN  CASE dialect.quoting = ALL -> TRUE
          [] dialect.quoting = NON_NUMERIC -> "num" \notin DOMAIN f
          [] dialect.quoting = MINIMAL ->
                \E i \in 1..Len(text) :
                    \/ text[i] = dialect.delimiter
                    \/ text[i] = dialect.quoteChar /\ dialect.doubleQuote
                    \/ InLineTerminator(text[i])
                    \/ text[i] = dialect.escapeChar
          [] dialect.quoting = NONE -> FALSE

\* c prefixed with escapeChar; without an escapeChar the write fails.
escaped(c) ==
    IF dialect.escapeChar = undefined THEN Failed(WriterEscapeRequired)
    ELSE Written(<<dialect.escapeChar, c>>)

\* As writeChar, but under NONE the quote character is written as it is.
writeChar_quoteUnescaped(c) ==
    IF dialect.quoting = NONE
    THEN IF c = dialect.delimiter \/ InLineTerminator(c)
         THEN escaped(c)
         ELSE Written(<<c>>)
    ELSE IF c = dialect.quoteChar
         THEN IF dialect.doubleQuote THEN Written(<<c, c>>) ELSE escaped(c)
         ELSE Written(<<c>>)

\* One character of a field: under NONE the delimiter, the quote character
\* and the line-terminator characters are escaped; otherwise the quote
\* character is doubled, or escaped when doubleQuote is off.
writeChar(c) ==
    IF dialect.quoting = NONE
    THEN IF c = dialect.delimiter \/ c = dialect.quoteChar
              \/ InLineTerminator(c)
         THEN escaped(c)
         ELSE Written(<<c>>)
    ELSE IF c = dialect.quoteChar
         THEN IF dialect.doubleQuote THEN Written(<<c, c>>) ELSE escaped(c)
         ELSE Written(<<c>>)

RECURSIVE writeChars(_)
writeChars(text) ==
    IF Len(text) = 0 THEN Written(<<>>)
    ELSE LET w == writeChar(Head(text))
             rest == writeChars(Tail(text))
         IN  IF IsFailed(w) THEN w
             ELSE IF IsFailed(rest) THEN rest
             ELSE Written(w.line \o rest.line)

writeField(f) ==
    LET w == writeChars(FieldText(f))
    IN  IF IsFailed(w) THEN w
        ELSE IF quoted(f)
             THEN Written(<<dialect.quoteChar>> \o w.line
                              \o <<dialect.quoteChar>>)
             ELSE w

\* The fields of a row from the i-th on, each after the first behind a
\* delimiter.
RECURSIVE writeFields(_, _)
writeFields(row, i) ==
    IF i > Len(row) THEN Written(<<>>)
    ELSE LET w == writeField(row[i])
             rest == writeFields(row, i + 1)
         IN  IF IsFailed(w) THEN w
             ELSE IF IsFailed(rest) THEN rest
             ELSE Written((IF i > 1 THEN <<dialect.delimiter>> ELSE <<>>)
                              \o w.line \o rest.line)

\* As writeRow, but a single empty field is written as nothing.
writeRow_emptyUnquoted(row) ==
    LET w == writeFields(row, 1)
    IN  IF IsFailed(w) THEN w
        ELSE Written(w.line \o dialect.lineTerminator)

\* One row to one terminated line.  A row of one field written as nothing
\* is quoted, which NONE quoting does not allow.
writeRow(row) ==
    LET w == writeFields(row, 1)
    IN  IF IsFailed(w) THEN w
        ELSE IF Len(row) = 1 /\ Len(w.line) = 0
             THEN IF dialect.quoting = NONE
                  THEN Failed(WriterSingleEmptyFieldMustQuote)
                  ELSE Written(<<dialect.quoteChar, dialect.quoteChar>>
                                   \o dialect.lineTerminator)
             ELSE Written(w.line \o dialect.lineTerminator)

\* writer(rows, dialect): the lines yielded, ending with the failure if a
\* row fails.
RECURSIVE writer(_)
writer(rows) ==
    IF Len(rows) = 0 THEN <<>>
    ELSE LET w == writeRow(Head(rows))
         IN  IF IsFailed(w) THEN <<w>> ELSE <<w>> \o writer(Tail(rows))

-----------------------------------------------------------------------------
(* recordReader.  opts is a record that has the fields fields, restKey and *)
(* restVal only when the caller gave them; a record read is a function     *)
(* from its keys (strings) to its values, a gathered rest being written    *)
(* [rest |-> values].                                                      *)

zip(a, b) == [i \in 1..Len(a) |-> <<a[i], b[i]>>]

\* String(key) of a property key that is not a string.
UndefinedKey == <<"u", "n", "d", "e", "f", "i", "n", "e", "d">>
PropertyKey(k) ==
    IF "undefined" \in DOMAIN k THEN UndefinedKey ELSE FieldText(k)

\* Object.fromEntries(entries): a later entry replaces an earlier one of the
\* same key.
RECURSIVE fromEntries(_)
fromEntries(entries) ==
    IF Len(entries) = 0 THEN <<>>
    ELSE LET n == Len(entries)
         IN  (PropertyKey(entries[n][1]) :> entries[n][2])
                 @@ fromEntries(SubSeq(entries, 1, n - 1))

\* As recordOf, but the values beyond the headers are dropped.
recordOf_dropsSurplus(headers, row, opts) ==
    LET lh == Len(headers)
        lr == Len(row)
        restVal == IF "restVal" \in DOMAIN opts THEN opts.restVal
                   ELSE Str(<<>>)
    IN  fromEntries(zip(headers,
                        [i \in 1..lh |-> IF i <= lr THEN row[i] ELSE restVal]))

\* The body of the for loop for a row that has values.
recordOf(headers, row, opts) ==
    LET lh == Len(headers)
        lr == Len(row)
    IN  IF lh < lr
        THEN fromEntries(zip(
                 Append(headers, IF "restKey" \in DOMAIN opts
                                 THEN Str(opts.restKey)
                                 ELSE [undefined |-> TRUE]),
                 Append(SubSeq(row, 1, lh), [rest |-> SubSeq(row, lh + 1, lr)])))
        ELSE LET restVal == IF "restVal" \in DOMAIN opts THEN opts.restVal
                            ELSE Str(<<>>)
             IN  fromEntries(zip(headers,
                                 [i \in 1..lh |->
                                     IF i <= lr THEN row[i] ELSE restVal]))

\* for (const row of reader): the records yielded, ending with the error if
\* next() throws.
RECURSIVE recordsFrom(_, _, _)
recordsFrom(m, headers, opts) ==
    LET m1 == Reader_next(m)
    IN  IF Thrown(m1) THEN <<m1.ret>>
        ELSE IF m1.ret.done THEN <<>>
        ELSE IF Len(m1.ret.value) # 0
             THEN <<recordOf(headers, m1.ret.value, opts)>>
                      \o recordsFrom(m1, headers, opts)
             ELSE recordsFrom(m1, headers, opts)

\* As recordReader, but an empty fields list counts as none given.
recordReader_emptyFieldsOmitted(src, opts) ==
    IF "fields" \in DOMAIN opts /\ Len(opts.fields) # 0
    THEN recordsFrom(Reader(src), [i \in 1..Len(opts.fields) |->
                                      Str(opts.fields[i])], opts)
    ELSE LET m1 == Reader_next(Reader(src))
         IN  IF Thrown(m1) THEN <<m1.ret>>
             ELSE recordsFrom(m1, m1.ret.value, opts)

\* const headers = opts.fields || reader.next().value || []: an array, empty
\* or not, is truthy, and so is the value of every result of next().
recordReader(src, opts) ==
    IF "fields" \in DOMAIN opts
    THEN recordsFrom(Reader(src), [i \in 1..Len(opts.fields) |->
                                      Str(opts.fields[i])], opts)
    ELSE LET m1 == Reader_next(Reader(src))
         IN  IF Thrown(m1) THEN <<m1.ret>>
             ELSE recordsFrom(m1, m1.ret.value, opts)

-----------------------------------------------------------------------------
(* The state machine: one Reader over a source, and a caller that calls    *)
(* next() again and again.  out is what the caller has seen: for each call *)
(* that ended, its result (a thrown error included) and the lineNum read   *)
(* after it.                                                               *)

\* The longest enumerated source of Spec and of SpecLines, and the number
\* of next() calls the caller makes.
MaxLen == 3
MaxLinesLen == 4
MaxPulls == 5

\* Sources of the test suite (src/spec/reader.spec.ts).
Source_QuotedDelimiter == <<"1", ",", "\"", ",", "3", ",", "\"", ",", "5">>
Source_QuotedQuote == <<"\"", "\"", "\"", "\"">>
Source_AdjacentQuotedQuotes == <<"\"", "\"", "\"", "\"", "\"", "\"">>
Source_QuotedNewline ==
    <<"1", ",", "\"", "\"", "\"", "a", ",", "\"", "\"", "\n", "b", "\"", ",",
      "\"", "c", "\n", "d", "\"", "\n", "9", ",", "8">>
Source_QuotedThenUnquoted == <<"\"", "a", "\"", "b">>
Source_NonNumeric == <<",", "3", ",", "\"", "5", "\"", ",", " ", "9">>
Source_LineNumber ==
    <<"l", "i", "n", "e", ",", "1", "\r", "\n",
      "l", "i", "n", "e", ",", "2", "\r", "\n",
      "l", "i", "n", "e", ",", "3">>

Source_EscapedDelimiter == <<"a", ",", "b", "\\", ",", "c">>
Source_EscapedQuote ==
    <<"a", ",", "\"", "b", ",", "c", "\\", "\"", "\"">>

Examples ==
    {Source_QuotedDelimiter, Source_QuotedQuote, Source_AdjacentQuotedQuotes,
     Source_QuotedNewline, Source_QuotedThenUnquoted, Source_NonNumeric,
     Source_EscapedDelimiter, Source_EscapedQuote}

Alphabet == {"a", "1", COMMA, DQUOTE, LF, BACKSLASH, NUL}

Dialects ==
    {[delimiter |-> COMMA, doubleQuote |-> dq, escapeChar |-> ec,
      lineTerminator |-> <<CR, LF>>, quoteChar |-> qc, quoting |-> q,
      skipInitialSpace |-> FALSE, strict |-> st] :
        dq \in BOOLEAN, ec \in {undefined, BACKSLASH},
        qc \in {undefined, DQUOTE}, q \in Quoting, st \in BOOLEAN}

LinesAlphabet == {"1", COMMA, DQUOTE, LF, CR}

LinesDialects ==
    {[excel EXCEPT !.doubleQuote = dq, !.quoting = q, !.strict = st] :
        dq \in BOOLEAN, q \in {MINIMAL, NON_NUMERIC, NONE}, st \in BOOLEAN}

\* The Reader as a record of the variables.
This ==
    [lines |-> lines, fields |-> fields, field |-> field,
     numericField |-> numericField, state |-> state, lineNum |-> lineNum,
     chars |-> chars, pc |-> pc, ret |-> ret]

Becomes(m) ==
    /\ lines' = m.lines
    /\ fields' = m.fields
    /\ field' = m.field
    /\ numericField' = m.numericField
    /\ state' = m.state
    /\ lineNum' = m.lineNum
    /\ chars' = m.chars
    /\ pc' = m.pc
    /\ ret' = m.ret
    /\ out' = IF m.pc = "idle"
              THEN Append(out, [ret |-> m.ret, lineNum |-> m.lineNum])
              ELSE out
    /\ UNCHANGED <<source, dialect>>
    /\ UNCHANGED <<iteratorVars, writerVars, recordsVars>>

InitOver(Sources, Ds) ==
    /\ source \in Sources
    /\ dialect \in Ds
    /\ lines = Reader(source).lines
    /\ fields = Reader(source).fields
    /\ field = Reader(source).field
    /\ numericField = Reader(source).numericField
    /\ state = Reader(source).state
    /\ lineNum = Reader(source).lineNum
    /\ chars = Reader(source).chars
    /\ pc = Reader(source).pc
    /\ ret = Reader(source).ret
    /\ out = <<>>

\* No HasNextIterator is used on its own.
NoIterator ==
    /\ sequence = <<>>
    /\ hasNextIterator = HasNextIterator(sequence)
    /\ calls = <<>>

\* No writer is used.
NoWriter ==
    /\ pulled = <<>>
    /\ yielded = Pending
    /\ writerPc = "idle"

\* No recordReader is used.
NoRecords ==
    /\ recordOpts = [dialect |-> excel]
    /\ records = <<>>
    /\ recordsPc = "idle"

Init ==
    /\ InitOver(Strings(Alphabet, MaxLen) \cup Examples, Dialects)
    /\ NoIterator
    /\ NoWriter
    /\ NoRecords

InitLines ==
    /\ InitOver(Strings(LinesAlphabet, MaxLinesLen) \cup {Source_LineNumber},
                LinesDialects)
    /\ NoIterator
    /\ NoWriter
    /\ NoRecords

NextEnter ==
    /\ pc = "idle"
    /\ Len(out) < MaxPulls
    /\ Becomes(Reader_next_enter(This))

NextLine ==
    /\ pc = "line"
    /\ Becomes(Reader_next_line(This))

NextChar ==
    /\ pc = "chars"
    /\ Becomes(Reader_next_char(This))

Next == NextEnter \/ NextLine \/ NextChar

Spec == Init /\ [][Next]_vars

SpecLines == InitLines /\ [][Next]_vars

-----------------------------------------------------------------------------
(* A HasNextIterator under any interleaving of hasNext() and next() *)

MaxIterable == 3
MaxCalls == 6

\* new HasNextIterator('foo') of the test suite, and the other short
\* strings over its characters.
Iterable_foo == <<"f", "o", "o">>
Iterables == Strings({"f", "o"}, MaxIterable)

InitIterator ==
    /\ InitOver({<<>>}, {excel})
    /\ NoWriter
    /\ NoRecords
    /\ sequence \in Iterables
    /\ hasNextIterator = HasNextIterator(sequence)
    /\ calls = <<>>

\* iterator.hasNext()
CallHasNext ==
    /\ Len(calls) < MaxCalls
    /\ LET r == HasNextIterator_hasNext(hasNextIterator)
       IN  /\ hasNextIterator' = r.it
           /\ calls' = Append(calls, [op |-> "hasNext", result |-> r.result])
    /\ UNCHANGED <<sequence, readerVars, writerVars, recordsVars>>

\* iterator.next()
CallNext ==
    /\ Len(calls) < MaxCalls
    /\ LET r == HasNextIterator_next(hasNextIterator)
       IN  /\ hasNextIterator' = r.it
           /\ calls' = Append(calls, [op |-> "next", value |-> r.value,
                                      done |-> r.done])
    /\ UNCHANGED <<sequence, readerVars, writerVars, recordsVars>>

NextIterator == CallHasNext \/ CallNext

SpecIterator == InitIterator /\ [][NextIterator]_vars

-----------------------------------------------------------------------------
(* A writer that is handed one row after the other *)

MaxFieldLen == 2

\* Rows of the test suite (src/spec/iterator.spec.ts).
Row_Mixed == <<Str(<<"a">>), Num(1), Str(<<"p", ",", "q">>)>>
Row_MixedQuote == <<Str(<<"a">>), Num(1), Str(<<"p", ",", "\"", "q", "\"">>)>>
Row_Quote == <<Str(<<"\"">>)>>
Row_Empty == <<Str(<<>>)>>

WriterAlphabet == {"a", COMMA, DQUOTE, LF, BACKSLASH}

WriterFields ==
    {Str(s) : s \in Strings(WriterAlphabet, MaxFieldLen)} \cup {Num(1)}

\* The rows of no field, of one field and of two fields, and the rows of
\* the test suite.
Rows ==
    {<<>>} \cup {<<f>> : f \in WriterFields}
        \cup {<<f, g>> : f \in WriterFields, g \in WriterFields}
        \cup {Row_Mixed, Row_MixedQuote, Row_Quote, Row_Empty}

WriterDialects ==
    {[excel EXCEPT !.quoting = q, !.doubleQuote = dq, !.escapeChar = ec] :
        q \in Quoting, dq \in BOOLEAN, ec \in {undefined, BACKSLASH}}
      \cup {unix}

InitWriter ==
    /\ InitOver({<<>>}, WriterDialects)
    /\ NoIterator
    /\ NoRecords
    /\ NoWriter

\* for (const row of rows): the writer pulls a row.
PullRow ==
    /\ writerPc = "idle"
    /\ pulled' \in Rows
    /\ yielded' = Pending
    /\ writerPc' = "row"
    /\ UNCHANGED <<readerVars, iteratorVars, recordsVars>>

\* The row is written: its line is yielded, or the failure is thrown and
\* the writer has ended.
WriteRow ==
    /\ writerPc = "row"
    /\ yielded' = writeRow(pulled)
    /\ writerPc' = IF IsFailed(yielded') THEN "thrown" ELSE "yielded"
    /\ UNCHANGED <<pulled, readerVars, iteratorVars, recordsVars>>

\* The consumer has taken the line and asks for the next one.
ResumeWriter ==
    /\ writerPc = "yielded"
    /\ pulled' = <<>>
    /\ yielded' = Pending
    /\ writerPc' = "idle"
    /\ UNCHANGED <<readerVars, iteratorVars, recordsVars>>

NextWriter == PullRow \/ WriteRow \/ ResumeWriter

SpecWriter == InitWriter /\ [][NextWriter]_vars

-----------------------------------------------------------------------------
(* A recordReader read to its end *)

MaxRecordsLen == 4

\* 'a,b,c\r\n1,2,3\n4,5,6' of the test suite.
Source_Records ==
    <<"a", ",", "b", ",", "c", "\r", "\n", "1", ",", "2", ",", "3", "\n",
      "4", ",", "5", ",", "6">>

RecordsAlphabet == {"a", "b", COMMA, LF}

\* The options: fields omitted, empty or given, restKey and restVal omitted
\* or given.
RecordsOpts ==
    LET Fs == {<<>>, <<<<"x">>>>, <<<<"x">>, <<"y">>>>}
        base == {[dialect |-> excel]}
                  \cup {[dialect |-> excel, fields |-> f] : f \in Fs}
        withKey == base \cup {o @@ [restKey |-> k] : o \in base,
                                                       k \in {<<"r">>, <<"a">>}}
    IN  withKey \cup {o @@ [restVal |-> Str(<<NUL>>)] : o \in withKey}

InitRecords ==
    /\ InitOver(Strings(RecordsAlphabet, MaxRecordsLen) \cup {Source_Records},
                {excel})
    /\ NoIterator
    /\ NoWriter
    /\ recordOpts \in RecordsOpts
    /\ records = <<>>
    /\ recordsPc = "idle"

\* [...recordReader(source, opts)]
ReadRecords ==
    /\ recordsPc = "idle"
    /\ records' = recordReader(source, recordOpts)
    /\ recordsPc' = "done"
    /\ UNCHANGED <<recordOpts, readerVars, iteratorVars, writerVars>>

NextRecords == ReadRecords

SpecRecords == InitRecords /\ [][NextRecords]_vars

-----------------------------------------------------------------------------
(* Vocabulary of the properties *)

\* The characters of the current line and the lines that next() has not
\* been given yet, whether the lookahead holds them or not.
CharsLeft == chars.nextValues \o chars.iterator
LinesLeft == lines.nextValues \o lines.iterator

\* next() is about to hand the character c to the Reader.
AtChar(c) == pc = "chars" /\ Len(CharsLeft) # 0 /\ Head(CharsLeft) = c

\* There is input after the character at hand.
MoreData == Len(CharsLeft) > 1 \/ Len(LinesLeft) # 0

Contains(s, c) == \E i \in 1..Len(s) : s[i] = c

IsRow(r) == "value" \in DOMAIN r /\ ~r.done
IsEnd(r) == "done" \in DOMAIN r /\ r.done
IsThrown(r) == "thrown" \in DOMAIN r

RowOf(r) == [value |-> r, done |-> FALSE]

-----------------------------------------------------------------------------
\* C1: inside a quoted field (after its opening quote, before its closing
\* quote, so with input still to come) a delimiter or an end-of-record
\* character handed to the Reader is appended to the field; the field is not
\* saved, the call does not return, and the Reader stays in the quoted field.
\* So '1,",3,",5' reads as the row '1', ',3,', '5'.
C1_Step ==
    \A c \in {dialect.delimiter, LF, CR} :
        /\ AtChar(c)
        /\ state \in {IN_QUOTED_FIELD, ESCAPE_IN_QUOTED_FIELD}
        /\ MoreData
        => /\ field' = Append(field, c)
           /\ fields' = fields
           /\ state' = IN_QUOTED_FIELD
           /\ pc' = "chars"

C1_Example ==
    source = Source_QuotedDelimiter /\ dialect.quoteChar = DQUOTE
        /\ dialect.quoting \in {MINIMAL, ALL} /\ Len(out) >= 1
    => out[1].ret = RowOf(<<Str(<<"1">>), Str(<<",", "3", ",">>), Str(<<"5">>)>>)

C1_QuotedLiteral == [][C1_Step]_vars /\ []C1_Example

\* A row was returned with a field that holds a delimiter and a newline.
C1_Witness ==
    /\ pc = "idle"
    /\ IsRow(ret)
    /\ \E i \in 1..Len(ret.value) :
          /\ "str" \in DOMAIN ret.value[i]
          /\ Contains(ret.value[i].str, COMMA)
          /\ Contains(ret.value[i].str, LF)

-----------------------------------------------------------------------------
\* C2: with doubleQuote, a quote character met inside a quoted field adds
\* nothing by itself; if the next character is a quote too, the pair adds
\* exactly one quote character to the field and the quoted field goes on; if
\* it is a delimiter or an end-of-record character, the field is closed and
\* saved as it stands.  So four quote characters read as the one field '"'
\* and six as the one field '""'.
C2_Step ==
    /\ AtChar(dialect.quoteChar) /\ state = IN_QUOTED_FIELD
           /\ dialect.doubleQuote
       => field' = field /\ fields' = fields
              /\ state' = QUOTE_IN_QUOTED_FIELD
    /\ AtChar(dialect.quoteChar) /\ state = QUOTE_IN_QUOTED_FIELD
       => field' = Append(field, dialect.quoteChar) /\ fields' = fields
              /\ state' = IN_QUOTED_FIELD
    /\ AtChar(dialect.delimiter) /\ state = QUOTE_IN_QUOTED_FIELD
       => fields' = Append(fields, Str(field)) /\ field' = <<>>
              /\ state' = START_FIELD
    /\ (AtChar(LF) \/ AtChar(CR)) /\ state = QUOTE_IN_QUOTED_FIELD
       => fields' = Append(fields, Str(field)) /\ field' = <<>>
              /\ state' = START_RECORD

C2_Examples ==
    dialect.doubleQuote /\ dialect.quoteChar = DQUOTE /\ dialect.quoting # NONE
        /\ Len(out) >= 1
    => /\ source = Source_QuotedQuote
          => out[1].ret = RowOf(<<Str(<<"\"">>)>>)
       /\ source = Source_AdjacentQuotedQuotes
          => out[1].ret = RowOf(<<Str(<<"\"", "\"">>)>>)

C2_DoubleQuote == [][C2_Step]_vars /\ []C2_Examples

\* The six quote characters have been read as one field of two quotes.
C2_Witness ==
    /\ source = Source_AdjacentQuotedQuotes
    /\ dialect.doubleQuote
    /\ pc = "idle"
    /\ ret = RowOf(<<Str(<<"\"", "\"">>)>>)

-----------------------------------------------------------------------------
(* C3: records and their terminators *)

\* The caller has reached the end marker or an error.
Finished == \E i \in 1..Len(out) : IsEnd(out[i].ret) \/ IsThrown(out[i].ret)

\* What a consumer of reader(source) is given: the rows up to the end
\* marker, or up to and with the first error.
FirstStop ==
    CHOOSE i \in 1..Len(out) :
        /\ IsEnd(out[i].ret) \/ IsThrown(out[i].ret)
        /\ \A j \in 1..(i - 1) : IsRow(out[j].ret)

RowsRead ==
    [i \in 1..(IF IsThrown(out[FirstStop].ret) THEN FirstStop
               ELSE FirstStop - 1) |-> out[i].ret]

FirstEndOfRecord(s) ==
    IF \E i \in 1..Len(s) : endOfRecord(s[i])
    THEN CHOOSE i \in 1..Len(s) :
             endOfRecord(s[i]) /\ \A j \in 1..(i - 1) : ~endOfRecord(s[j])
    ELSE 0

\* The ways to read s as records, each followed by CR LF, CR or LF (the last
\* one, when it is not empty, possibly by nothing).  With crThenLf, a CR
\* directly followed by LF may also be read as a record ended by CR followed
\* by an empty record ended by LF.
RECURSIVE RecordsOf(_, _)
RecordsOf(s, crThenLf) ==
    LET i == FirstEndOfRecord(s)
        After(k) == {<<SubSeq(s, 1, i - 1)>> \o r :
                        r \in RecordsOf(SubSeq(s, k, Len(s)), crThenLf)}
    IN  IF Len(s) = 0 THEN {<<>>}
        ELSE IF i = 0 THEN {<<s>>}
        ELSE IF s[i] = CR /\ i < Len(s) /\ s[i + 1] = LF
             THEN After(i + 2) \cup (IF crThenLf THEN After(i + 1) ELSE {})
             ELSE After(i + 1)

\* The records, each followed by the terminator t; the last one is followed
\* by nothing when it is not empty and last is FALSE.
RECURSIVE Terminated(_, _, _)
Terminated(recs, t, last) ==
    IF Len(recs) = 0 THEN <<>>
    ELSE IF Len(recs) = 1 /\ ~last /\ Len(recs[1]) # 0 THEN recs[1]
    ELSE recs[1] \o t \o Terminated(Tail(recs), t, last)

Terminators == {<<CR, LF>>, <<CR>>, <<LF>>}

NoQuoteOrEscape(s) ==
    \A i \in 1..Len(s) : s[i] \notin {dialect.quoteChar, dialect.escapeChar}

SameRowsWhateverTerminator(crThenLf) ==
    Finished /\ NoQuoteOrEscape(source)
    => \A recs \in RecordsOf(source, crThenLf) :
          \A t \in Terminators, last \in BOOLEAN :
              reader(Terminated(recs, t, last)) = RowsRead

\* C3 as stated: for a source without quote or escape characters, the rows
\* read are those read from the same records with any one of CR LF, CR, LF
\* after each of them, the last one terminated or not.
C3_Original == SameRowsWhateverTerminator(TRUE)

\* C3, amended: the same, a CR directly followed by LF being one terminator
\* (never the CR of one record and the LF of an empty record after it).
C3_SameRows == SameRowsWhateverTerminator(FALSE)

\* Two records separated by a bare CR, the last with no terminator, have been
\* read as two rows.
C3_Witness ==
    /\ Finished
    /\ NoQuoteOrEscape(source)
    /\ Contains(source, CR)
    /\ ~Contains(source, LF)
    /\ ~endOfRecord(source[Len(source)])
    /\ Len(RowsRead) = 2
    /\ \A i \in 1..2 : IsRow(RowsRead[i])

-----------------------------------------------------------------------------
(* C4, C5: the line counter *)

\* lineNum as the caller read it before call i.
LineNumBefore(i) == IF i = 1 THEN 0 ELSE out[i - 1].lineNum

ReadsStrings == dialect.quoting # NON_NUMERIC

\* C5 as stated: over 'line,1\r\nline,2\r\nline,3' the line counter is 3
\* after each pull.
C5_Original ==
    source = Source_LineNumber /\ ReadsStrings
    => \A i \in 1..Len(out) : out[i].lineNum = 3

\* C5, amended: the first three pulls return the three rows and leave the
\* line counter at 1, 2 and 3; the pulls after them return the end marker
\* and leave it at 3.
C5_LineCounter ==
    source = Source_LineNumber /\ ReadsStrings
    => \A i \in 1..Len(out) :
          /\ i = 1 => out[i] = [ret |-> RowOf(<<Str(<<"l", "i", "n", "e">>),
                                                Str(<<"1">>)>>), lineNum |-> 1]
          /\ i = 2 => out[i] = [ret |-> RowOf(<<Str(<<"l", "i", "n", "e">>),
                                                Str(<<"2">>)>>), lineNum |-> 2]
          /\ i = 3 => out[i] = [ret |-> RowOf(<<Str(<<"l", "i", "n", "e">>),
                                                Str(<<"3">>)>>), lineNum |-> 3]
          /\ i > 3 => IsEnd(out[i].ret) /\ out[i].lineNum = 3

\* The three rows and then the end marker have been pulled.
C5_Witness ==
    /\ source = Source_LineNumber
    /\ ReadsStrings
    /\ pc = "idle"
    /\ Len(out) = 4
    /\ IsEnd(out[4].ret)
    /\ lineNum = 3

-----------------------------------------------------------------------------
(* C6: truncated input *)

ErrorAt(message, n) == [thrown |-> [message |-> message, lineNum |-> n]]

\* next() asks for a line, there is none, and a field is pending.
Truncated ==
    /\ pc = "line"
    /\ Len(LinesLeft) = 0
    /\ Len(field) # 0 \/ state = IN_QUOTED_FIELD

\* The pending field as a field of the row: the number it converts to when
\* it began as an unquoted NON_NUMERIC field, else its text.
PendingField == IF numericField THEN Number(field) ELSE Str(field)

C6_Strict ==
    Truncated /\ dialect.strict
    => /\ ret' = ErrorAt(<<"unexpected end of data">>,
                         Len(SourceLines(source)))
       /\ pc' = "idle"
       /\ out' = Append(out, [ret |-> ret', lineNum |-> lineNum])

C6_Examples ==
    dialect.quoteChar = DQUOTE /\ dialect.quoting \in {MINIMAL, ALL}
        /\ Len(out) >= 1
    => /\ source = <<"a", ",", "\"">>
          => out[1].ret =
                IF dialect.strict THEN ErrorAt(<<"unexpected end of data">>, 1)
                ELSE RowOf(<<Str(<<"a">>), Str(<<>>)>>)
       /\ source = <<"\"", "a">>
          => out[1].ret =
                IF dialect.strict THEN ErrorAt(<<"unexpected end of data">>, 1)
                ELSE RowOf(<<Str(<<"a">>)>>)

\* C6 as stated: on truncated input strict mode fails with 'unexpected end
\* of data' at the number of lines consumed, and non-strict mode returns the
\* row with the pending field as its last field.
C6_OriginalStep ==
    /\ C6_Strict
    /\ Truncated /\ ~dialect.strict
       => /\ ~isNaN(PendingField)
          /\ ret' = RowOf(Append(fields, PendingField))

C6_Original == [][C6_OriginalStep]_vars /\ []C6_Examples

\* C6, amended: ... and non-strict mode returns the row with the pending
\* field as its last field, unless the pending field began as an unquoted
\* NON_NUMERIC field and its text does not convert: then the pull fails with
\* the conversion error.
C6_Step ==
    /\ C6_Strict
    /\ Truncated /\ ~dialect.strict
       => /\ pc' = "idle"
          /\ ret' = IF isNaN(PendingField)
                    THEN ErrorAt(<<"could not convert string to number: ">>
                                     \o field, lineNum)
                    ELSE RowOf(Append(fields, PendingField))

C6_Truncated == [][C6_Step]_vars /\ []C6_Examples

\* 'a,"' has been read, not strictly, as the row 'a', ''.
C6_Witness ==
    /\ source = <<"a", ",", "\"">>
    /\ ~dialect.strict
    /\ pc = "idle"
    /\ Len(out) = 1
    /\ ret = RowOf(<<Str(<<"a">>), Str(<<>>)>>)

-----------------------------------------------------------------------------
(* C7: the character after a closing quote *)

MalformedQuote ==
    <<DQUOTE, dialect.delimiter, "\" expected after \"", dialect.quoteChar,
      DQUOTE>>

\* In QUOTE_IN_QUOTED_FIELD, at a character that is neither the quote
\* character, the delimiter nor an end-of-record character, nor in Excepted:
\* strict mode fails with MalformedQuote at the current line, non-strict
\* mode appends the character and goes on in IN_FIELD.
AfterClosingQuote(Excepted) ==
    /\ pc = "chars"
    /\ Len(CharsLeft) # 0
    /\ state = QUOTE_IN_QUOTED_FIELD
    /\ Head(CharsLeft) \notin
           {dialect.quoteChar, dialect.delimiter, LF, CR} \cup Excepted
    => IF dialect.strict
       THEN /\ ret' = ErrorAt(MalformedQuote, lineNum)
            /\ pc' = "idle"
            /\ out' = Append(out, [ret |-> ret', lineNum |-> lineNum])
       ELSE /\ field' = Append(field, Head(CharsLeft))
            /\ fields' = fields
            /\ state' = IN_FIELD
            /\ pc' = "chars"

C7_Example ==
    source = Source_QuotedThenUnquoted /\ dialect.quoteChar = DQUOTE
        /\ dialect.quoting \in {MINIMAL, ALL} /\ dialect.doubleQuote
        /\ Len(out) >= 1
    => out[1].ret = IF dialect.strict THEN ErrorAt(MalformedQuote, 1)
                    ELSE RowOf(<<Str(<<"a", "b">>)>>)

\* C7 as stated: for every character after a closing quote that is neither
\* the quote character, the delimiter nor an end-of-record character.
C7_Original == [][AfterClosingQuote({})]_vars /\ []C7_Example

\* C7, amended: for every such character other than NUL (a NUL fails the
\* pull with 'line contains NULL byte' in either mode).
C7_AfterClosingQuote == [][AfterClosingQuote({NUL})]_vars /\ []C7_Example

\* '"a"b' has been read, not strictly, as the one field 'ab'.
C7_Witness ==
    /\ source = Source_QuotedThenUnquoted
    /\ ~dialect.strict
    /\ pc = "idle"
    /\ Len(out) = 1
    /\ ret = RowOf(<<Str(<<"a", "b">>)>>)

-----------------------------------------------------------------------------
(* C8: NUL *)

NullByte == <<"line contains NULL byte">>

\* Call i was given line k of the source.
Consumed(i, k) == k > LineNumBefore(i) /\ k <= out[i].lineNum

\* C8 as stated: a pull that consumes a line containing NUL fails with 'line
\* contains NULL byte' at the number of that line.
C8_Original ==
    \A i \in 1..Len(out) : \A k \in 1..Len(SourceLines(source)) :
        Consumed(i, k) /\ Contains(SourceLines(source)[k], NUL)
        => out[i].ret = ErrorAt(NullByte, k)

\* C8, amended: a pull that reaches a NUL character fails there with 'line
\* contains NULL byte' at the number of the line, in every state and mode;
\* a pull that consumes a line containing NUL returns no row: it fails at
\* that line, with this error unless a character before the NUL has already
\* failed it with the malformed-quote or the number-conversion error.
C8_Step ==
    AtChar(NUL)
    => /\ ret' = ErrorAt(NullByte, lineNum)
       /\ lineNum = Len(SourceLines(source)) - Len(LinesLeft)
       /\ pc' = "idle"
       /\ out' = Append(out, [ret |-> ret', lineNum |-> lineNum])

C8_Pulls ==
    \A i \in 1..Len(out) : \A k \in 1..Len(SourceLines(source)) :
        Consumed(i, k) /\ Contains(SourceLines(source)[k], NUL)
        => /\ IsThrown(out[i].ret)
           /\ out[i].ret.thrown.lineNum = k
           /\ \/ out[i].ret.thrown.message = NullByte
              \/ out[i].ret.thrown.message = MalformedQuote
              \/ Head(out[i].ret.thrown.message)
                     = "could not convert string to number: "

C8_NullByte == [][C8_Step]_vars /\ []C8_Pulls

\* A NUL on the second line of a quoted field has failed the pull.
C8_Witness ==
    /\ pc = "idle"
    /\ state = IN_QUOTED_FIELD
    /\ ret = ErrorAt(NullByte, 2)

-----------------------------------------------------------------------------
(* C9: NON_NUMERIC quoting *)

IsNumber(f) == "num" \in DOMAIN f

\* C9: under NON_NUMERIC quoting a field that began with an unquoted
\* ordinary character is returned as a number or fails the pull, and its
\* text is never returned as a field; a field that began with a quote is a
\* string and an empty field is the empty string.  So from a source without
\* quote and escape characters, where no field begins with a quote, every
\* field of every row returned is a number or the empty string.
C9_NonNumeric ==
    dialect.quoting = NON_NUMERIC /\ NoQuoteOrEscape(source)
    => \A i \in 1..Len(out) :
          IsRow(out[i].ret)
          => \A j \in 1..Len(out[i].ret.value) :
                \/ IsNumber(out[i].ret.value[j])
                \/ out[i].ret.value[j] = Str(<<>>)

-----------------------------------------------------------------------------
(* C10: no quote character *)

Unquoted == dialect.quoteChar = undefined \/ dialect.quoting = NONE

C10_States ==
    Unquoted
    => state \notin {IN_QUOTED_FIELD, ESCAPE_IN_QUOTED_FIELD,
                     QUOTE_IN_QUOTED_FIELD}

C10_QuoteMark ==
    Unquoted /\ AtChar(DQUOTE)
    => field' = Append(field, DQUOTE) /\ fields' = fields /\ pc' = "chars"

C10_Example ==
    Unquoted /\ dialect.quoting # NON_NUMERIC
        /\ source = Source_QuotedDelimiter /\ Len(out) >= 1
    => out[1].ret = RowOf(<<Str(<<"1">>), Str(<<"\"">>), Str(<<"3">>),
                            Str(<<"\"">>), Str(<<"5">>)>>)

UnescapedDelimiter ==
    Unquoted /\ AtChar(dialect.delimiter) /\ state # ESCAPED_CHAR

\* C10 as stated: without a quote character the quoted states are never
\* reached, a quote mark is appended like any other character, and every
\* unescaped delimiter ends the field before it and saves it as a field.
C10_OriginalStep ==
    /\ C10_QuoteMark
    /\ UnescapedDelimiter
       => /\ ~isNaN(PendingField)
          /\ fields' = Append(fields, PendingField)
          /\ field' = <<>>
          /\ state' = START_FIELD

C10_Step ==
    /\ C10_QuoteMark
    /\ UnescapedDelimiter
       => IF isNaN(PendingField)
          THEN /\ ret' = ErrorAt(<<"could not convert string to number: ">>
                                     \o field, lineNum)
               /\ pc' = "idle"
          ELSE /\ fields' = Append(fields, PendingField)
               /\ field' = <<>>
               /\ state' = START_FIELD
               /\ pc' = "chars"

-----------------------------------------------------------------------------
(* C11: the escape character *)

Escaping == dialect.escapeChar # undefined

\* At the escape character at the start of a field, inside an unquoted field
\* or inside a quoted field: nothing is added to the field.
EscapeMet ==
    Escaping /\ AtChar(dialect.escapeChar)
        /\ state \in {START_RECORD, START_FIELD, IN_FIELD, AFTER_ESCAPED_CRLF,
                      IN_QUOTED_FIELD}
    => /\ field' = field
       /\ fields' = fields
       /\ state' = IF state = IN_QUOTED_FIELD THEN ESCAPE_IN_QUOTED_FIELD
                   ELSE ESCAPED_CHAR
       /\ pc' = "chars"

\* At the character after the escape character, unless it is in Excepted:
\* it is appended to the field, which goes on, quoted or unquoted as it was.
EscapedChar(Excepted) ==
    /\ Escaping
    /\ pc = "chars"
    /\ Len(CharsLeft) # 0
    /\ state \in {ESCAPED_CHAR, ESCAPE_IN_QUOTED_FIELD}
    /\ Head(CharsLeft) \notin Excepted
    => /\ field' = Append(field, Head(CharsLeft))
       /\ fields' = fields
       /\ state' = IF state = ESCAPE_IN_QUOTED_FIELD THEN IN_QUOTED_FIELD
                   ELSE IF endOfRecord(Head(CharsLeft))
                        THEN AFTER_ESCAPED_CRLF
                        ELSE IN_FIELD
       /\ pc' = "chars"

C11_Examples ==
    dialect.escapeChar = BACKSLASH /\ dialect.quoteChar = DQUOTE
        /\ dialect.quoting \in {MINIMAL, ALL} /\ Len(out) >= 1
    => /\ source = Source_EscapedDelimiter
          => out[1].ret = RowOf(<<Str(<<"a">>), Str(<<"b", ",", "c">>)>>)
       /\ source = Source_EscapedQuote
          => out[1].ret =
                 RowOf(<<Str(<<"a">>), Str(<<"b", ",", "c", "\"">>)>>)

\* C11 as stated: with an escapeChar configured, an escape character met at
\* the start of a field, inside an unquoted field or inside a quoted field
\* is not added to the field, and the character after it is appended
\* literally whatever it is; an escaped delimiter does not split the field
\* and an escaped quote does not close a quoted field.
C11_Original ==
    [][EscapeMet /\ EscapedChar({})]_vars /\ []C11_Examples

\* C11, amended: ... and the character after it is appended literally
\* unless it is NUL (a NUL fails the pull with 'line contains NULL byte').
C11_Escape ==
    [][EscapeMet /\ EscapedChar({NUL})]_vars /\ []C11_Examples

\* 'a,"b,c\""' has been read as the two fields 'a' and 'b,c"'.
C11_Witness ==
    /\ source = Source_EscapedQuote
    /\ dialect.escapeChar = BACKSLASH
    /\ pc = "idle"
    /\ Len(out) = 1
    /\ ret = RowOf(<<Str(<<"a">>), Str(<<"b", ",", "c", "\"">>)>>)

-----------------------------------------------------------------------------
(* C12: exhaustion *)

EndMarker == [value |-> <<>>, done |-> TRUE]

\* C12: once a pull has returned the end marker (done true, empty value),
\* every later pull returns the end marker too, no further row is returned,
\* and lineNum stays what it was when the first end marker was returned,
\* during the later pulls as well as after them.
C12_Exhausted ==
    \A i \in 1..Len(out) :
        out[i].ret = EndMarker
        => /\ \A j \in i..Len(out) : out[j] = out[i]
           /\ lineNum = out[i].lineNum
           /\ pc = "idle" => ret = EndMarker

\* A row, then the end marker, then the end marker again twice.
C12_Witness ==
    /\ pc = "idle"
    /\ Len(out) >= 4
    /\ IsRow(out[1].ret)
    /\ out[1].lineNum >= 1
    /\ \A j \in 2..4 : out[j].ret = EndMarker

-----------------------------------------------------------------------------
(* C13, C14, C15: HasNextIterator *)

IsHasNext(i) == calls[i].op = "hasNext"
IsNextCall(i) == calls[i].op = "next"

\* The number of elements that the next() calls before call i returned.
Returned(i) == Cardinality({j \in 1..(i - 1) : IsNextCall(j) /\ ~calls[j].done})

\* The elements not yet returned by next().
Remaining == SubSeq(sequence, Returned(Len(calls) + 1) + 1, Len(sequence))

\* C13: hasNext() returns true exactly when the next call to next() returns
\* a value (done false), and false exactly when the underlying sequence is
\* exhausted, after any interleaving of hasNext() and next() calls.
C13_HasNext ==
    /\ HasNextIterator_hasNext(hasNextIterator).result
           = ~HasNextIterator_next(hasNextIterator).done
    /\ HasNextIterator_hasNext(hasNextIterator).result = (Len(Remaining) # 0)
    /\ \A i \in 1..Len(calls) :
          IsHasNext(i)
          => /\ calls[i].result = (Returned(i) < Len(sequence))
             /\ \A j \in (i + 1)..Len(calls) :
                   IsNextCall(j) /\ (\A k \in (i + 1)..(j - 1) : IsHasNext(k))
                   => calls[j].done = ~calls[i].result

\* Over 'foo': hasNext() said true before each element and false after the
\* last one, and the next() after that returned the end marker.
C13_Witness ==
    /\ sequence = Iterable_foo
    /\ Len(calls) = 6
    /\ calls[1] = [op |-> "hasNext", result |-> TRUE]
    /\ calls[2] = [op |-> "next", value |-> "f", done |-> FALSE]
    /\ calls[3] = [op |-> "next", value |-> "o", done |-> FALSE]
    /\ calls[4] = [op |-> "next", value |-> "o", done |-> FALSE]
    /\ calls[5] = [op |-> "hasNext", result |-> FALSE]
    /\ IsNextCall(6) /\ calls[6].done

Answer(r) == [value |-> r.value, done |-> r.done]

\* A hasNext() call leaves the answers of the next hasNext() and of the next
\* next() what they were before it.
C14_Step ==
    Len(calls') = Len(calls) + 1 /\ calls'[Len(calls')].op = "hasNext"
    => /\ Answer(HasNextIterator_next(hasNextIterator'))
              = Answer(HasNextIterator_next(hasNextIterator))
       /\ HasNextIterator_hasNext(hasNextIterator').result
              = calls'[Len(calls')].result

C14_Calls ==
    \A i \in 1..Len(calls) :
       /\ i > 1 /\ IsHasNext(i) /\ IsHasNext(i - 1)
          => calls[i].result = calls[i - 1].result
       /\ IsNextCall(i) /\ ~calls[i].done
          => calls[i].value = sequence[Returned(i) + 1]

\* C14: hasNext() is idempotent and does not advance the logical position:
\* consecutive hasNext() calls return the same answer, and the next() that
\* follows returns the element it would have returned had hasNext() not
\* been called.
C14_Idempotent == [][C14_Step]_vars /\ []C14_Calls

\* Over 'foo': three hasNext() calls, then next() returned 'f'.
C14_Witness ==
    /\ sequence = Iterable_foo
    /\ Len(calls) = 4
    /\ \A i \in 1..3 : calls[i] = [op |-> "hasNext", result |-> TRUE]
    /\ calls[4] = [op |-> "next", value |-> "f", done |-> FALSE]

\* The answers of the next() calls made so far, in order.
RECURSIVE NextAnswers(_)
NextAnswers(n) ==
    IF n = 0 THEN <<>>
    ELSE IF IsNextCall(n)
         THEN Append(NextAnswers(n - 1), Answer(calls[n]))
         ELSE NextAnswers(n - 1)

\* C15: whatever the interleaving of hasNext() and next() calls, the values
\* returned by next() are the elements of the underlying sequence, in
\* order, each once, followed by the end marker.
C15_Elements ==
    LET answers == NextAnswers(Len(calls))
    IN  \A k \in 1..Len(answers) :
           answers[k] = IF k <= Len(sequence)
                        THEN [value |-> sequence[k], done |-> FALSE]
                        ELSE [value |-> <<>>, done |-> TRUE]

\* Over 'fo', with a hasNext() between the next() calls: 'f', 'o' and the
\* end marker.
C15_Witness ==
    /\ sequence = <<"f", "o">>
    /\ Len(calls) = 6
    /\ \A i \in {1, 3, 5} : IsHasNext(i)
    /\ NextAnswers(Len(calls))
           = <<[value |-> "f", done |-> FALSE],
               [value |-> "o", done |-> FALSE],
               [value |-> <<>>, done |-> TRUE]>>

-----------------------------------------------------------------------------
(* C16, C17, C18: what the writer yields for a row *)

WroteRow == writerPc \in {"yielded", "thrown"}

Line(s) == Written(s \o dialect.lineTerminator)

\* The strings of parts, one after the other with d between them.
RECURSIVE JoinWith(_, _)
JoinWith(parts, d) ==
    IF Len(parts) = 0 THEN <<>>
    ELSE IF Len(parts) = 1 THEN parts[1]
    ELSE parts[1] \o <<d>> \o JoinWith(Tail(parts), d)

TextContains(f, c) == Contains(FieldText(f), c)

ContainsLineTerminator(f) ==
    \E i \in 1..Len(FieldText(f)) : InLineTerminator(FieldText(f)[i])

\* The field as written between quote characters, or bare.
Quoted(f) ==
    <<dialect.quoteChar>> \o writeChars(FieldText(f)).line
        \o <<dialect.quoteChar>>
Bare(f) == writeChars(FieldText(f)).line

SingleEmptyField(row) == Len(row) = 1 /\ Len(FieldText(row[1])) = 0

NeedsEscape(c) ==
    c = dialect.delimiter \/ c = dialect.quoteChar \/ InLineTerminator(c)

RowNeedsEscape(row) ==
    \E i \in 1..Len(row) :
       \E k \in 1..Len(FieldText(row[i])) : NeedsEscape(FieldText(row[i])[k])

\* The text with escapeChar before each character that needs it.
RECURSIVE Prefixed(_)
Prefixed(text) ==
    IF Len(text) = 0 THEN <<>>
    ELSE (IF NeedsEscape(Head(text)) THEN <<dialect.escapeChar>> ELSE <<>>)
             \o <<Head(text)>> \o Prefixed(Tail(text))

\* C17: under NONE quoting no field is wrapped in quote characters, every
\* delimiter, quote character and line-terminator character of a field is
\* written behind escapeChar, and when a field has such a character and no
\* escapeChar is configured the write fails with 'need to escape, but no
\* escapeChar set' and yields no line.
C17_None ==
    WroteRow /\ dialect.quoting = NONE
    => IF RowNeedsEscape(pulled) /\ dialect.escapeChar = undefined
       THEN writerPc = "thrown" /\ yielded = Failed(WriterEscapeRequired)
       ELSE ~SingleEmptyField(pulled)
            => /\ writerPc = "yielded"
               /\ yielded =
                    Line(JoinWith([i \in 1..Len(pulled) |->
                                      Prefixed(FieldText(pulled[i]))],
                                  dialect.delimiter))
               /\ \A k \in 1..Len(yielded.line) :
                     yielded.line[k] = dialect.quoteChar
                     => k > 1 /\ yielded.line[k - 1] = dialect.escapeChar

\* ['a', 1, 'p,q'] has been written as 'a,1,p\,q\r\n'.
C17_Witness ==
    /\ writerPc = "yielded"
    /\ dialect.quoting = NONE
    /\ pulled = Row_Mixed
    /\ yielded = Line(<<"a", ",", "1", ",", "p", "\\", ",", "q">>)

\* C18: a row of exactly one field whose text is empty is written as a
\* quoted empty field followed by the line terminator under MINIMAL
\* quoting, and under NONE quoting the write fails with 'single empty field
\* record must be quoted'.
C18_SingleEmptyField ==
    WroteRow /\ SingleEmptyField(pulled)
    => /\ dialect.quoting = MINIMAL
          => /\ writerPc = "yielded"
             /\ yielded = Line(<<dialect.quoteChar, dialect.quoteChar>>)
       /\ dialect.quoting = NONE
          => /\ writerPc = "thrown"
             /\ yielded = Failed(WriterSingleEmptyFieldMustQuote)

\* [''] has been written as '""\r\n' under MINIMAL quoting.
C18_Witness ==
    /\ writerPc = "yielded"
    /\ dialect.quoting = MINIMAL
    /\ pulled = Row_Empty
    /\ yielded = Line(<<"\"", "\"">>)

-----------------------------------------------------------------------------
(* C19: round trip *)

SafeField(f) ==
    \A k \in 1..Len(FieldText(f)) :
        FieldText(f)[k] \notin {dialect.delimiter, dialect.quoteChar, LF, CR}

SafeRow(row) == \A i \in 1..Len(row) : SafeField(row[i])

AnyFailed(ws) == \E i \in 1..Len(ws) : IsFailed(ws[i])

\* The lines yielded, one after the other: the text written.
RECURSIVE Joined(_)
Joined(ws) == IF Len(ws) = 0 THEN <<>> ELSE Head(ws).line \o Joined(Tail(ws))

\* write(read(write(rows))) = write(rows), where write(rows) is a text.
RoundTrip(rows) ==
    LET first == writer(rows)
    IN  ~AnyFailed(first)
        => LET text == Joined(first)
               read == reader(text)
           IN  /\ \A i \in 1..Len(read) : ~IsThrown(read[i])
               /\ LET second == writer([i \in 1..Len(read) |-> read[i].value])
                  IN  ~AnyFailed(second) /\ Joined(second) = text

\* C19: for all dialects and all rows whose fields contain no delimiter,
\* quote or newline characters, write(read(write(rows))) equals
\* write(rows).
C19_RoundTrip ==
    writerPc = "yielded" /\ SafeRow(pulled) => RoundTrip(<<pulled>>)

-----------------------------------------------------------------------------
(* C20: the keys of the records *)

\* The rows that reader() yields from the source, when none fails.
RowsOfSource == reader(source)
ReadsWell == \A i \in 1..Len(RowsOfSource) : ~IsThrown(RowsOfSource[i])

KeysOf(hs) == {PropertyKey(hs[i]) : i \in 1..Len(hs)}

RestKey ==
    IF "restKey" \in DOMAIN recordOpts THEN recordOpts.restKey
    ELSE UndefinedKey

\* The rows with values among rows, in order.
RECURSIVE WithValues(_)
WithValues(rows) ==
    IF Len(rows) = 0 THEN <<>>
    ELSE IF Len(Head(rows).value) # 0
         THEN <<Head(rows).value>> \o WithValues(Tail(rows))
         ELSE WithValues(Tail(rows))

\* The records are those of the rows given, one for each row with values,
\* and their keys are those of headers, and the rest key where the row has
\* more values than there are headers.
RecordsAre(headers, rows) ==
    LET valued == WithValues(rows)
    IN  /\ Len(records) = Len(valued)
        /\ \A i \in 1..Len(records) :
              DOMAIN records[i] =
                  KeysOf(headers) \cup
                      (IF Len(valued[i]) > Len(headers) THEN {RestKey}
                       ELSE {})

FieldsGiven ==
    "fields" \in DOMAIN recordOpts /\ Len(recordOpts.fields) # 0

\* C20: the record keys are the given fields list when it is supplied and
\* non-empty; when fields is omitted or empty, the keys are the values of
\* the first row read, and that row is not itself emitted as a record.
C20_Keys ==
    recordsPc = "done" /\ ReadsWell
    => IF FieldsGiven
       THEN RecordsAre([i \in 1..Len(recordOpts.fields) |->
                           Str(recordOpts.fields[i])],
                       RowsOfSource)
       ELSE IF Len(RowsOfSource) = 0 THEN records = <<>>
       ELSE RecordsAre(RowsOfSource[1].value, Tail(RowsOfSource))

-----------------------------------------------------------------------------
(* C21: blank rows, surplus values and missing values of recordReader *)

\* The headers the loop of recordReader works with, and the rows it loops
\* over.
HeadersUsed ==
    IF "fields" \in DOMAIN recordOpts
    THEN [i \in 1..Len(recordOpts.fields) |-> Str(recordOpts.fields[i])]
    ELSE IF Len(RowsOfSource) = 0 THEN <<>>
    ELSE RowsOfSource[1].value

RowsLooped ==
    IF "fields" \in DOMAIN recordOpts \/ Len(RowsOfSource) = 0
    THEN RowsOfSource
    ELSE Tail(RowsOfSource)

RestVal ==
    IF "restVal" \in DOMAIN recordOpts THEN recordOpts.restVal ELSE Str(<<>>)

Surplus(row) == [rest |-> SubSeq(row, Len(HeadersUsed) + 1, Len(row))]

\* Header i of the record of row is mapped to value i of the row, or to the
\* rest value where the row has no value i.
HeaderMapped(rec, row, i) ==
    LET k == PropertyKey(HeadersUsed[i])
    IN  k \in DOMAIN rec
        /\ rec[k] = IF i <= Len(row) THEN row[i] ELSE RestVal

\* The surplus values of row are in the record, in order, under the rest
\* key.
SurplusGathered(rec, row) ==
    Len(row) > Len(HeadersUsed)
    => RestKey \in DOMAIN rec /\ rec[RestKey] = Surplus(row)

\* Header i is the last header of its name, and the row has no surplus
\* gathered under that name.
LastOfName(row, i) ==
    /\ \A j \in (i + 1)..Len(HeadersUsed) :
          PropertyKey(HeadersUsed[j]) # PropertyKey(HeadersUsed[i])
    /\ Len(row) > Len(HeadersUsed)
       => PropertyKey(HeadersUsed[i]) # RestKey

\* C21 as stated: blank rows produce no record; each row with values yields
\* one record that maps every header i to value i of the row, the headers
\* without a value to the rest value, and holds the surplus values in order
\* under the rest key.
C21_Original ==
    recordsPc = "done" /\ ReadsWell =>
    LET valued == WithValues(RowsLooped)
    IN  /\ Len(records) = Len(valued)
        /\ \A n \in 1..Len(records) :
              /\ \A i \in 1..Len(HeadersUsed) :
                    HeaderMapped(records[n], valued[n], i)
              /\ SurplusGathered(records[n], valued[n])

\* C21: blank rows produce no record; each row with values yields one
\* record that holds the surplus values in order under the rest key and maps
\* header i to value i of the row, or to the rest value where the row has
\* no value i, for every header i that is the last of its name and whose
\* name is not the rest key of a row with surplus values.
C21_Records ==
    recordsPc = "done" /\ ReadsWell =>
    LET valued == WithValues(RowsLooped)
    IN  /\ Len(records) = Len(valued)
        /\ \A n \in 1..Len(records) :
              /\ \A i \in 1..Len(HeadersUsed) :
                    LastOfName(valued[n], i)
                    => HeaderMapped(records[n], valued[n], i)
              /\ SurplusGathered(records[n], valued[n])

\* A blank row skipped and a row with one value more than there are
\* headers.
C21_Witness ==
    /\ recordsPc = "done"
    /\ source = <<LF, "a", COMMA, "b">>
    /\ "fields" \in DOMAIN recordOpts /\ recordOpts.fields = <<<<"x">>>>
    /\ "restKey" \in DOMAIN recordOpts /\ recordOpts.restKey = <<"r">>
    /\ records = <<(<<"x">> :> Str(<<"a">>))
                     @@ (<<"r">> :> [rest |-> <<Str(<<"b">>)>>])>>

(* C22: what a pull starts from *)

\* The lines were exhausted when pull n began.
ExhaustedBefore(n) ==
    (IF n = 1 THEN 0 ELSE out[n - 1].lineNum) = Len(SourceLines(source))

\* C22: every pull, whatever the earlier pulls did, starts from an empty
\* field buffer, an empty field list and state START_RECORD, and a pull that
\* begins with the lines exhausted returns the end marker.
C22_PerRowReset ==
    /\ [][pc = "idle" /\ pc' # "idle"
          => field' = <<>> /\ fields' = <<>> /\ state' = START_RECORD]_vars
    /\ [](\A n \in 1..Len(out) : ExhaustedBefore(n) => IsEnd(out[n].ret))

(* C23: the end of data inside a quoted field *)

\* At the last character of the last line, in a quoted field: the character
\* is skipped.
EndOfDataSkipped ==
    /\ pc = "chars"
    /\ Len(CharsLeft) # 0
    /\ state = IN_QUOTED_FIELD
    /\ ~MoreData
    => /\ field' = field
       /\ fields' = fields
       /\ state' = state
       /\ pc' = "chars"
       /\ out' = out

\* At any other character of a quoted field, unless it is in Excepted: the
\* escape character and the quote character change the state, every other
\* character is appended to the field.
QuotedChar(Excepted) ==
    /\ pc = "chars"
    /\ Len(CharsLeft) # 0
    /\ state = IN_QUOTED_FIELD
    /\ MoreData
    /\ Head(CharsLeft) \notin Excepted
    => LET c == Head(CharsLeft)
       IN  /\ fields' = fields
           /\ pc' = "chars"
           /\ out' = out
           /\ IF c = dialect.escapeChar
              THEN field' = field /\ state' = ESCAPE_IN_QUOTED_FIELD
              ELSE IF c = dialect.quoteChar
                   THEN /\ field' = field
                        /\ state' = IF dialect.doubleQuote
                                    THEN QUOTE_IN_QUOTED_FIELD
                                    ELSE IN_FIELD
              ELSE field' = Append(field, c) /\ state' = IN_QUOTED_FIELD

\* A NUL inside a quoted field fails the pull.
QuotedNul ==
    AtChar(NUL) /\ state = IN_QUOTED_FIELD
    => /\ pc' = "idle"
       /\ ret' = ErrorAt(<<"line contains NULL byte">>, lineNum)

\* C23 as stated: in IN_QUOTED_FIELD the last character of the last
\* remaining line is neither appended to the field nor changes the state,
\* whatever it is; at every other position of a quoted field the
\* IN_QUOTED_FIELD transitions apply.
C23_Original == [][EndOfDataSkipped /\ QuotedChar({})]_vars

\* C23, amended: ... at every other position of a quoted field the
\* IN_QUOTED_FIELD transitions apply, unless the character is NUL, which
\* fails the pull with 'line contains NULL byte'.
C23_EndOfData == [][EndOfDataSkipped /\ QuotedChar({NUL}) /\ QuotedNul]_vars

\* '"a' has been read up to its end: the newline that ends the data has
\* been skipped inside the quoted field 'a'.
C23_Witness ==
    /\ source = <<DQUOTE, "a">>
    /\ dialect.quoteChar = DQUOTE
    /\ pc = "chars"
    /\ Len(CharsLeft) = 0 /\ Len(LinesLeft) = 0
    /\ state = IN_QUOTED_FIELD
    /\ field = <<"a">>

(* C24: blank lines *)

\* The number of lines consumed when pull n began.
LinesBefore(n) == IF n = 1 THEN 0 ELSE out[n - 1].lineNum

\* Pull n began at a line that is a line terminator and nothing else.
BlankLineMet(n) ==
    /\ LinesBefore(n) < Len(SourceLines(source))
    /\ SourceLines(source)[LinesBefore(n) + 1] \in {<<LF>>, <<CR>>}

\* C24: a pull that begins at a line made of a line terminator alone
\* returns the empty row and consumes that line and no other; the empty
\* source yields the end marker and no row.
C24_BlankLines ==
    \A n \in 1..Len(out) :
        /\ BlankLineMet(n)
           => /\ out[n].ret = RowOf(<<>>)
              /\ out[n].lineNum = LinesBefore(n) + 1
        /\ Len(source) = 0 => IsEnd(out[n].ret) /\ out[n].lineNum = 0

\* Of the two lines '1' and CR LF, the second has been read as the empty
\* row.
C24_Witness ==
    /\ source = <<"1", LF, CR, LF>>
    /\ pc = "idle"
    /\ Len(out) = 2
    /\ out[1].lineNum = 1
    /\ out[2] = [ret |-> RowOf(<<>>), lineNum |-> 2]

(* C25: termination and progress *)

\* L, the number of physical lines of the source.
NumLines == Len(SourceLines(source))

NoneFailed == \A n \in 1..Len(out) : ~IsThrown(out[n].ret)

\* Pulling without a failure reaches the end marker after at most L + 1
\* pulls.
C25_Termination ==
    NoneFailed /\ Len(out) >= NumLines + 1
    => \E n \in 1..(NumLines + 1) : IsEnd(out[n].ret)

\* Every pull that returns a row increases lineNum by at least 1.
C25_RowProgress ==
    \A n \in 1..Len(out) :
        IsRow(out[n].ret) => out[n].lineNum >= LinesBefore(n) + 1

\* The number of rows returned never exceeds L.
C25_RowCount ==
    Cardinality({n \in 1..Len(out) : IsRow(out[n].ret)}) <= NumLines

\* C25: a caller that pulls without any pull failing reaches the end marker
\* after at most L + 1 pulls, L being the number of physical lines of the
\* source; every pull that returns a row increases lineNum by at least 1,
\* and the number of rows returned never exceeds L.
C25_Progress == C25_Termination /\ C25_RowProgress /\ C25_RowCount

(* The writer on the rows of the test suite *)

WriterTests ==
    writerPc \in {"yielded", "thrown"} =>
    /\ pulled = Row_Mixed
       => yielded =
            CASE dialect.quoting = MINIMAL ->
                    Line(<<"a", ",", "1", ",", "\"", "p", ",", "q", "\"">>)
              [] dialect.quoting = NON_NUMERIC ->
                    Line(<<"\"", "a", "\"", ",", "1", ",",
                           "\"", "p", ",", "q", "\"">>)
              [] dialect.quoting = ALL ->
                    Line(<<"\"", "a", "\"", ",", "\"", "1", "\"", ",",
                           "\"", "p", ",", "q", "\"">>)
              [] dialect.quoting = NONE ->
                    IF dialect.escapeChar = undefined
                    THEN Failed(WriterEscapeRequired)
                    ELSE Line(<<"a", ",", "1", ",", "p", "\\", ",", "q">>)
    /\ pulled = Row_MixedQuote /\ dialect.quoting = MINIMAL
           /\ ~dialect.doubleQuote
       => yielded =
            IF dialect.escapeChar = undefined
            THEN Failed(WriterEscapeRequired)
            ELSE Line(<<"a", ",", "1", ",", "\"", "p", ",", "\\", "\"", "q",
                        "\\", "\"", "\"">>)
    /\ pulled = Row_Quote /\ dialect.escapeChar = BACKSLASH
           /\ dialect.quoting \in {MINIMAL, NONE}
       => yielded =
            IF dialect.quoting = MINIMAL /\ dialect.doubleQuote
            THEN Line(<<"\"", "\"", "\"", "\"">>)
            ELSE Line(<<"\\", "\"">>)
    /\ pulled = Row_Empty
       => yielded =
            IF dialect.quoting = NONE
            THEN Failed(WriterSingleEmptyFieldMustQuote)
            ELSE Line(<<"\"", "\"">>)

====
